---- MODULE Spec2Model ----
(***************************************************************************)
(* Model of the RFID relay loop of src/Front_end_PHP/relay.py: main() and  *)
(* the __main__ entry point.  One process; pc is its position in the code. *)
(* Text is a sequence of one-character strings; a serial line is a         *)
(* sequence of bytes.                                                      *)
(***************************************************************************)
EXTENDS Integers, Sequences, FiniteSets, TLC

VARIABLES
    pc,        \* position of the process in relay.py
    ser,       \* the serial handle: "none" before serial.Serial returns, then "open"
    line,      \* bytes returned by the last ser.readline() of this iteration
    raw,       \* local `raw` (decoded, stripped text)
    uid,       \* local `uid`
    request,   \* the request handed to requests.post in this iteration
    resp,      \* local `resp`
    log,       \* outcome lines printed during the current iteration
    raised,    \* class of the last exception raised in the current iteration
    inflight,  \* number of POSTs issued and not yet answered or failed
    nScanned,  \* non-empty lines read so far
    nPosted,   \* POSTs issued so far
    idle,      \* consecutive empty reads since the last pacing delay
    nOpens     \* calls of serial.Serial so far

vars == <<pc, ser, line, raw, uid, request, resp, log, raised, inflight,
          nScanned, nPosted, idle, nOpens>>

-----------------------------------------------------------------------------
(* Bounds of the model *)

MaxLen == 2        \* longest serial line, in bytes, without its terminator
MaxBodyLen == 122  \* longest response body, in characters
MaxScans == 2      \* non-empty lines read in one run
MaxIdle == 2       \* consecutive empty reads followed in one run

(* Program constants *)

POST_TIMEOUT == 2
TRUNC == 120

API_URL == "http://127.0.0.1:8000/api/rfid"

-----------------------------------------------------------------------------
(* Text *)

BadByte == "BAD"      \* a byte that is no valid UTF-8
LF == "\n"
Bytes == {"a", "B", " ", "\r", BadByte}
Marker == "..."       \* the one character U+2026 appended at line 149

Undef == <<"UNDEF">>  \* value of a local that is not bound

RECURSIVE SeqsUpTo(_, _)
SeqsUpTo(S, n) ==
    IF n = 0 THEN {<<>>}
    ELSE LET shorter == SeqsUpTo(S, n - 1)
         IN  shorter \cup {Append(s, c) : s \in {t \in shorter : Len(t) = n - 1}, c \in S}

\* what ser.readline() can return: a line ended by its terminator, or, on
\* the read timeout, the bytes received so far (possibly none)
Lines ==
    LET body == SeqsUpTo(Bytes, MaxLen)
    IN  body \cup {Append(s, LF) : s \in body}

IsSpace(c) == c \in {" ", "\r", "\n"}

\* bytes.decode('utf-8', errors='ignore'): invalid bytes are dropped
Decode(bytes) ==
    LET valid(b) == b # BadByte
    IN  SelectSeq(bytes, valid)

RECURSIVE LStrip(_)
LStrip(s) ==
    IF s # <<>> /\ IsSpace(Head(s)) THEN LStrip(Tail(s)) ELSE s

RECURSIVE RStrip(_)
RStrip(s) ==
    IF s # <<>> /\ IsSpace(s[Len(s)]) THEN RStrip(SubSeq(s, 1, Len(s) - 1)) ELSE s

\* defect: only leading whitespace is removed
Strip_LeftOnly(s) == LStrip(s)

\* str.strip()
Strip(s) == RStrip(LStrip(s))

\* defect: the identifier is sent as read
Upper_NoOp(s) == s

\* defect: the empty-line test never skips
Falsy_Never(s) == FALSE

UpperChar(c) == IF c = "a" THEN "A" ELSE c

\* str.upper()
Upper(s) == [i \in DOMAIN s |-> UpperChar(s[i])]

\* `not raw`
Falsy(s) == s = <<>>

-----------------------------------------------------------------------------
(* Responses *)

Statuses == {100, 200, 204, 299, 304, 399, 400, 422, 599, 600}

Reason(status) ==
    CASE status = 200 -> <<"OK">>
      [] status = 204 -> <<"No Content">>
      [] status = 304 -> <<"Not Modified">>
      [] status = 400 -> <<"Bad Request">>
      [] status = 422 -> <<"Unprocessable Entity">>
      [] OTHER -> <<"Unknown">>

BodyLens == {0, 1, 13, TRUNC - 1, TRUNC, TRUNC + 1, MaxBodyLen}

BodyChar(i) == IF i % 3 = 0 THEN "x" ELSE IF i % 3 = 1 THEN "y" ELSE "z"

BodyOf(n) == [i \in 1..n |-> BodyChar(i)]

NoResp == [status |-> 0, text |-> Undef, reason |-> Undef]

NoRequest == [url |-> "", json |-> [uid |-> Undef], timeout |-> 0]

\* defect: only server errors count as failures
Ok_Below500(status) == status < 500

\* defect: every response after the first submission counts as a failure
Ok_FirstOnly(status) == ~(400 <= status /\ status < 600) /\ nPosted < 2

\* Response.ok of the requests library: raise_for_status() does not raise
Ok(status) == ~(400 <= status /\ status < 600)

Min(a, b) == IF a < b THEN a ELSE b

\* defect: the body is not cut before the marker is appended
ErrorMsg_Uncut(r) ==
    IF r.text # <<>> THEN r.text \o <<Marker>> ELSE r.reason

\* error_msg, line 149
ErrorMsg(r) ==
    IF r.text # <<>>
    THEN SubSeq(r.text, 1, Min(TRUNC, Len(r.text))) \o <<Marker>>
    ELSE r.reason

Entry(kind, status, detail) == [kind |-> kind, status |-> status, detail |-> detail]

-----------------------------------------------------------------------------
(* Exceptions *)

\* the classes an exception is an instance of
Bases(e) ==
    CASE e = "ReadTimeout" ->
            {"Timeout", "RequestException", "OSError", "Exception", "BaseException"}
      [] e = "ConnectTimeout" ->
            {"ConnectionError", "Timeout", "RequestException", "OSError",
             "Exception", "BaseException"}
      [] e = "ConnectionError" ->
            {"ConnectionError", "RequestException", "OSError", "Exception", "BaseException"}
      [] e = "TooManyRedirects" ->
            {"RequestException", "OSError", "Exception", "BaseException"}
      [] e = "SerialException" ->
            {"SerialException", "OSError", "Exception", "BaseException"}
      [] e = "JSONDecodeError" -> {"ValueError", "Exception", "BaseException"}
      [] e = "TypeError" -> {"TypeError", "Exception", "BaseException"}
      [] e = "KeyboardInterrupt" -> {"KeyboardInterrupt", "BaseException"}

OpenExcs == {"SerialException", "TypeError", "KeyboardInterrupt"}
ReadExcs == {"SerialException", "TypeError", "KeyboardInterrupt"}
PostExcs == {"ReadTimeout", "ConnectTimeout", "ConnectionError", "TooManyRedirects",
             "KeyboardInterrupt"}
JsonExcs == {"JSONDecodeError", "TypeError", "KeyboardInterrupt"}

Handler(cls, kind, goto) == [cls |-> cls, kind |-> kind, goto |-> goto]

\* defect: a failed open is reported and the loop is entered all the same
OpenHandlers_Continue == << Handler("Exception", "FatalInit", "readline") >>

\* except Exception, line 102, then `return`
OpenHandlers == << Handler("Exception", "FatalInit", "FatalInit") >>

\* defect: only a JSON syntax error is swallowed
JsonHandlers_ValueError == << Handler("ValueError", "Swallowed", "sleep") >>

\* bare except, line 144
JsonHandlers == << Handler("BaseException", "Swallowed", "sleep") >>

\* defect: the connection clause comes before the timeout clause
LoopHandlers_Swapped ==
    << Handler("ConnectionError", "NetworkUnreachable", "sleep"),
       Handler("Timeout", "NetworkTimeout", "sleep"),
       Handler("SerialException", "SerialFailure", "sleep"),
       Handler("Exception", "UnknownFailure", "sleep") >>

\* defect: no catch-all clause
LoopHandlers_NoCatchAll ==
    << Handler("Timeout", "NetworkTimeout", "sleep"),
       Handler("ConnectionError", "NetworkUnreachable", "sleep"),
       Handler("SerialException", "SerialFailure", "sleep") >>

\* defect: a handled failure goes back to the read without the delay
LoopHandlers_NoDelay ==
    << Handler("Timeout", "NetworkTimeout", "readline"),
       Handler("ConnectionError", "NetworkUnreachable", "readline"),
       Handler("SerialException", "SerialFailure", "readline"),
       Handler("Exception", "UnknownFailure", "readline") >>

\* defect: a timed-out submission is sent again
LoopHandlers_Retry ==
    << Handler("Timeout", "NetworkTimeout", "post"),
       Handler("ConnectionError", "NetworkUnreachable", "sleep"),
       Handler("SerialException", "SerialFailure", "sleep"),
       Handler("Exception", "UnknownFailure", "sleep") >>

\* defect: a refused submission is sent again
LoopHandlers_RetryRefused ==
    << Handler("Timeout", "NetworkTimeout", "sleep"),
       Handler("ConnectionError", "NetworkUnreachable", "post"),
       Handler("SerialException", "SerialFailure", "sleep"),
       Handler("Exception", "UnknownFailure", "sleep") >>

\* defect: no clause for the serial failure
LoopHandlers_NoSerialClause ==
    << Handler("Timeout", "NetworkTimeout", "sleep"),
       Handler("ConnectionError", "NetworkUnreachable", "sleep"),
       Handler("Exception", "UnknownFailure", "sleep") >>

\* defect: the catch-all clause comes first
LoopHandlers_CatchAllFirst ==
    << Handler("Exception", "UnknownFailure", "sleep"),
       Handler("Timeout", "NetworkTimeout", "sleep"),
       Handler("ConnectionError", "NetworkUnreachable", "sleep"),
       Handler("SerialException", "SerialFailure", "sleep") >>

\* defect: only the two network clauses
LoopHandlers_NetworkOnly ==
    << Handler("Timeout", "NetworkTimeout", "sleep"),
       Handler("ConnectionError", "NetworkUnreachable", "sleep") >>

\* the except clauses of the loop body, lines 153-166
LoopHandlers ==
    << Handler("Timeout", "NetworkTimeout", "sleep"),
       Handler("ConnectionError", "NetworkUnreachable", "sleep"),
       Handler("SerialException", "SerialFailure", "sleep"),
       Handler("Exception", "UnknownFailure", "sleep") >>

\* the except clauses around main(), lines 183-188
MainHandlers ==
    << Handler("KeyboardInterrupt", "Stopped", "Stopped"),
       Handler("Exception", "FatalError", "FatalError") >>

\* the try statements enclosing a position, innermost first
TryBlocks(at) ==
    CASE at = "open" -> <<OpenHandlers, MainHandlers>>
      [] at \in {"readline", "post", "await"} -> <<LoopHandlers, MainHandlers>>
      [] at = "json" -> <<JsonHandlers, LoopHandlers, MainHandlers>>
      [] OTHER -> <<MainHandlers>>

FirstMatch(e, hs) ==
    LET hits == {i \in DOMAIN hs : hs[i].cls \in Bases(e)}
    IN  IF hits = {} THEN 0 ELSE CHOOSE i \in hits : \A j \in hits : i <= j

RECURSIVE Unwind(_, _)
Unwind(e, blocks) ==
    IF blocks = <<>> THEN Handler("BaseException", "Uncaught", "Crashed")
    ELSE LET i == FirstMatch(e, Head(blocks))
         IN  IF i > 0 THEN Head(blocks)[i] ELSE Unwind(e, Tail(blocks))

\* exception e raised at position `at`: the handler that runs
Catch(e, at) == Unwind(e, TryBlocks(at))

\* defect: the swallowed parse failure is printed as a failure
Logged_Swallowed(h) ==
    <<Entry(IF h.kind = "Swallowed" THEN "UnknownFailure" ELSE h.kind, 0, <<>>)>>

\* what the handler prints
Logged(h) == IF h.kind = "Swallowed" THEN <<>> ELSE <<Entry(h.kind, 0, <<>>)>>

Terminal == {"FatalInit", "Stopped", "FatalError", "Crashed"}

-----------------------------------------------------------------------------
(* The program *)

Init ==
    /\ pc = "open"
    /\ ser = "none"
    /\ line = <<>>
    /\ raw = Undef
    /\ uid = Undef
    /\ request = NoRequest
    /\ resp = NoResp
    /\ log = <<>>
    /\ raised = "none"
    /\ inflight = 0
    /\ nScanned = 0
    /\ nPosted = 0
    /\ idle = 0
    /\ nOpens = 0

\* control leaves position `at` with exception e
Raise(e, at) ==
    LET h == Catch(e, at)
    IN  /\ raised' = e
        /\ pc' = h.goto
        /\ log' = log \o Logged(h)

\* line 98: serial.Serial(...) returns
OpenOk ==
    /\ pc = "open"
    /\ ser' = "open"
    /\ nOpens' = nOpens + 1
    /\ pc' = "readline"
    /\ UNCHANGED <<line, raw, uid, request, resp, log, raised, inflight,
                   nScanned, nPosted, idle>>

\* line 98: serial.Serial(...) raises
OpenFail ==
    /\ pc = "open"
    /\ \E e \in OpenExcs : Raise(e, "open")
    /\ nOpens' = nOpens + 1
    /\ UNCHANGED <<ser, line, raw, uid, request, resp, inflight, nScanned, nPosted, idle>>

\* lines 114-118: a line is read, decoded and stripped; an empty one is skipped
ReadLine ==
    /\ pc = "readline"
    /\ \E bytes \in Lines :
        LET text == Strip(Decode(bytes))
        IN  /\ line' = bytes
            /\ raw' = text
            /\ IF Falsy(text)
               THEN /\ idle < MaxIdle
                    /\ idle' = idle + 1
                    /\ pc' = "readline"
                    /\ nScanned' = nScanned
               ELSE /\ nScanned < MaxScans
                    /\ idle' = 0
                    /\ pc' = "post"
                    /\ nScanned' = nScanned + 1
    /\ UNCHANGED <<nOpens, ser, uid, request, resp, log, raised, inflight, nPosted>>

\* line 114: ser.readline() raises
ReadFail ==
    /\ pc = "readline"
    /\ \E e \in ReadExcs : Raise(e, "readline")
    /\ UNCHANGED <<nOpens, ser, line, raw, uid, request, resp, inflight, nScanned, nPosted, idle>>

\* lines 121-133: the identifier is normalized and the POST is issued
Send ==
    /\ pc = "post"
    /\ uid' = Upper(raw)
    /\ log' = Append(log, Entry("Detected", 0, Upper(raw)))
    /\ request' = [url |-> API_URL, json |-> [uid |-> Upper(raw)], timeout |-> POST_TIMEOUT]
    /\ inflight' = inflight + 1
    /\ nPosted' = nPosted + 1
    /\ pc' = "await"
    /\ UNCHANGED <<nOpens, ser, line, raw, resp, raised, nScanned, idle>>

\* lines 125-151: a response arrives and is classified
Respond ==
    /\ pc = "await"
    /\ \E status \in Statuses, n \in BodyLens :
        LET r == [status |-> status, text |-> BodyOf(n), reason |-> Reason(status)]
        IN  /\ resp' = r
            /\ IF Ok(status)
               THEN /\ log' = Append(log, Entry("Delivered", status, <<>>))
                    /\ pc' = "json"
               ELSE /\ log' = Append(log, Entry("Rejected", status, ErrorMsg(r)))
                    /\ pc' = "sleep"
    /\ inflight' = inflight - 1
    /\ UNCHANGED <<nOpens, ser, line, raw, uid, request, raised, nScanned, nPosted, idle>>

\* lines 125-133: requests.post raises
PostFail ==
    /\ pc = "await"
    /\ \E e \in PostExcs : Raise(e, "await")
    /\ inflight' = inflight - 1
    /\ UNCHANGED <<nOpens, ser, line, raw, uid, request, resp, nScanned, nPosted, idle>>

\* lines 141-143: the body parses to a container; its message, if any, is printed
ParseJson ==
    /\ pc = "json"
    /\ \E hasMessage \in BOOLEAN :
        log' = IF hasMessage THEN Append(log, Entry("ServerMessage", 0, <<"ok">>)) ELSE log
    /\ pc' = "sleep"
    /\ UNCHANGED <<nOpens, ser, line, raw, uid, request, resp, raised, inflight,
                   nScanned, nPosted, idle>>

\* lines 141-145: resp.json() or the message lookup raises
ParseFail ==
    /\ pc = "json"
    /\ \E e \in JsonExcs : Raise(e, "json")
    /\ UNCHANGED <<nOpens, ser, line, raw, uid, request, resp, inflight, nScanned, nPosted, idle>>

\* line 169: the pacing delay elapses and the next iteration begins
Sleep ==
    /\ pc = "sleep"
    /\ pc' = "readline"
    /\ idle' = 0
    /\ line' = <<>>
    /\ raw' = Undef
    /\ uid' = Undef
    /\ request' = NoRequest
    /\ resp' = NoResp
    /\ log' = <<>>
    /\ raised' = "none"
    /\ UNCHANGED <<nOpens, ser, inflight, nScanned, nPosted>>

\* line 169: Ctrl+C during time.sleep
SleepInterrupt ==
    /\ pc = "sleep"
    /\ Raise("KeyboardInterrupt", "sleep")
    /\ UNCHANGED <<nOpens, ser, line, raw, uid, request, resp, inflight, nScanned, nPosted, idle>>

Next ==
    \/ OpenOk
    \/ OpenFail
    \/ ReadLine
    \/ ReadFail
    \/ Send
    \/ Respond
    \/ PostFail
    \/ ParseJson
    \/ ParseFail
    \/ Sleep
    \/ SleepInterrupt

Spec == Init /\ [][Next]_vars

\* the process is sequential and every blocking call is bounded: the POST
\* by timeout=2 (line 132), the delay by 0.1 s (line 169); a step that is
\* ready is taken
LiveSpec ==
    /\ Init
    /\ [][Next]_vars
    /\ WF_vars(Send)
    /\ WF_vars(Respond \/ PostFail)
    /\ WF_vars(ParseJson \/ ParseFail)
    /\ WF_vars(Sleep \/ SleepInterrupt)

-----------------------------------------------------------------------------
(* Properties *)

OutcomeKinds == {"Delivered", "Rejected", "NetworkTimeout", "NetworkUnreachable",
                 "SerialFailure", "UnknownFailure"}

\* the outcomes printed in the current iteration, in order
Outcomes ==
    LET isOutcome(en) == en.kind \in OutcomeKinds
    IN  SelectSeq(log, isOutcome)

\* trimmed and uppercased text, stated by positions
TrimUpperOf(t) ==
    LET keep == {i \in DOMAIN t : t[i] \notin {" ", "\r", "\n"}}
    IN  IF keep = {} THEN <<>>
        ELSE LET lo == CHOOSE i \in keep : \A j \in keep : i <= j
                 hi == CHOOSE i \in keep : \A j \in keep : j <= i
             IN  [k \in 1..(hi - lo + 1) |->
                    IF t[lo + k - 1] = "a" THEN "A" ELSE t[lo + k - 1]]

\* a line that decodes and strips to nothing
Blank(bytes) == \A i \in DOMAIN bytes : bytes[i] \in {" ", "\r", "\n", BadByte}

Posted == request # NoRequest
Answered == resp # NoResp

\* C1: the uid field of the POST of an iteration is the trimmed and
\* uppercased form of the decoded line read in that iteration, it is not
\* empty, and the payload has no other field.
C1_UidIsTrimmedUpper ==
    Posted =>
        /\ request.json.uid = TrimUpperOf(Decode(line))
        /\ request.json.uid # <<>>
        /\ DOMAIN request.json = {"uid"}

C1_Witness ==
    /\ pc = "await"
    /\ line = <<" ", "a", LF>>
    /\ request.json.uid = <<"A">>

\* C2: a read that returns an empty or whitespace-only line issues no POST,
\* logs nothing and leaves the loop waiting for the next line.
C2_EmptyReadSkipped ==
    [][(pc = "readline" /\ raised' = "none" /\ Blank(line')) =>
          /\ pc' = "readline"
          /\ nPosted' = nPosted
          /\ inflight' = 0
          /\ request' = NoRequest
          /\ log' = <<>>]_vars

C2_Witness ==
    /\ pc = "readline"
    /\ line = <<" ", LF>>
    /\ idle = 1
    /\ nPosted = 0

\* C3: after a response with status 200..299 the only outcome of the
\* iteration is Delivered, and a body that does not parse, or parses to
\* something without a usable message, leaves the loop at the pacing delay.
C3_Status2xxDelivered ==
    (Answered /\ resp.status \in 200..299) =>
        /\ Outcomes = <<Entry("Delivered", resp.status, <<>>)>>
        /\ pc \notin {"FatalError", "Crashed"}
        /\ raised \in {"JSONDecodeError", "TypeError"} => pc = "sleep"

C3_Witness ==
    /\ pc = "sleep"
    /\ resp.status = 299
    /\ raised = "TypeError"

\* C4 as stated: a response with a status outside 200..299 is Rejected with
\* that status.
C4_NonSuccessRejected ==
    (Answered /\ resp.status \notin 200..299) =>
        /\ Len(Outcomes) = 1
        /\ Outcomes[1].kind = "Rejected"
        /\ Outcomes[1].status = resp.status

\* C4 amended: a response with a status in 400..599 is Rejected with that
\* status and never Delivered; a response with any other status is Delivered.
C4_ErrorStatusRejected ==
    Answered =>
        /\ Len(Outcomes) = 1
        /\ Outcomes[1].status = resp.status
        /\ Outcomes[1].kind = IF resp.status \in 400..599 THEN "Rejected" ELSE "Delivered"

C4_Witness ==
    /\ pc = "sleep"
    /\ resp.status = 422
    /\ Len(Outcomes) = 1
    /\ Outcomes[1].kind = "Rejected"

\* C5 as stated: the excerpt of a Rejected outcome is the body itself when
\* the body is not empty and at most 120 characters long, its first 120
\* characters and the marker when it is longer, and the reason phrase when
\* the body is empty.
C5_ExcerptMarksTruncationOnly ==
    \A i \in DOMAIN log :
        log[i].kind = "Rejected" =>
            log[i].detail =
                IF resp.text = <<>> THEN resp.reason
                ELSE IF Len(resp.text) <= TRUNC THEN resp.text
                ELSE SubSeq(resp.text, 1, TRUNC) \o <<Marker>>

\* C6: the excerpt of a Rejected outcome with a non-empty body is at most
\* 121 characters long.
C6_ExcerptAtMost121 ==
    \A i \in DOMAIN log :
        (log[i].kind = "Rejected" /\ resp.text # <<>>) =>
            Len(log[i].detail) <= TRUNC + 1

C6_Witness ==
    /\ pc = "sleep"
    /\ Len(resp.text) > TRUNC + 1
    /\ Len(Outcomes) = 1
    /\ Outcomes[1].kind = "Rejected"
    /\ Len(Outcomes[1].detail) = TRUNC + 1

\* C7: a transport timeout is logged as NetworkTimeout and a refused or
\* unreachable connection as NetworkUnreachable, as the only outcome of the
\* iteration, and the loop goes on to the pacing delay.
C7_TransportFailureClassified ==
    /\ raised \in {"ReadTimeout", "ConnectTimeout"} =>
          (Outcomes = <<Entry("NetworkTimeout", 0, <<>>)>> /\ pc = "sleep")
    /\ raised = "ConnectionError" =>
          (Outcomes = <<Entry("NetworkUnreachable", 0, <<>>)>> /\ pc = "sleep")

C7_Witness ==
    /\ pc = "sleep"
    /\ raised = "ConnectTimeout"
    /\ Outcomes = <<Entry("NetworkTimeout", 0, <<>>)>>

\* C8: the process ends only in FatalInit, when the open failed, or in
\* Stopped, on an interrupt; once the port is open every other exception
\* leaves the loop running.
C8_OnlyInitFailureOrInterruptEnds ==
    /\ pc \in Terminal =>
          \/ pc = "FatalInit" /\ ser = "none" /\ raised \in OpenExcs \ {"KeyboardInterrupt"}
          \/ pc = "Stopped" /\ raised = "KeyboardInterrupt"
    /\ (ser = "open" /\ raised \notin {"none", "KeyboardInterrupt"}) => pc = "sleep"

C8_Witness ==
    /\ ser = "open"
    /\ pc = "sleep"
    /\ raised = "SerialException"
    /\ nPosted = 1

\* C9 as stated: every iteration, an empty read included, is followed by
\* the pacing delay before the next read begins.
C9_DelayAfterEveryIteration ==
    [][pc' = "readline" => pc \in {"open", "sleep"}]_vars

\* C9 amended: the pacing delay follows every iteration that read a
\* non-empty line or raised an exception; only an iteration whose read was
\* empty goes back to the read without the delay.
C9_DelayUnlessEmptyRead ==
    [][pc' = "readline" =>
          \/ pc \in {"open", "sleep"}
          \/ pc = "readline" /\ Blank(line') /\ raised' = "none" /\ log' = <<>>]_vars

C9_Witness ==
    /\ pc = "readline"
    /\ idle = 2
    /\ nPosted = 1

\* C10: the k-th POST carries the normalized form of the k-th non-empty
\* line, at most one POST is in flight, and none is in flight while a line
\* is read or another POST is prepared.
C10_InOrderOneInFlight ==
    /\ inflight \in {0, 1}
    /\ inflight = 1 <=> pc = "await"
    /\ nScanned - nPosted \in {0, 1}
    /\ nScanned - nPosted = 1 <=> pc = "post"
    /\ pc = "await" => request.json.uid = TrimUpperOf(Decode(line))

C10_Witness ==
    /\ pc = "await"
    /\ nPosted = 2
    /\ nScanned = 2
    /\ inflight = 1

\* C11 as stated: in every terminal state a handle that was opened has been
\* closed.
C11_HandleReleasedOnExit ==
    (pc \in Terminal /\ nOpens = 1 /\ ser # "none") => ser = "closed"

\* C12 as stated: an interrupt raised anywhere in the loop is absorbed by no
\* handler of the loop and takes the process to Stopped.
C12_InterruptStops ==
    raised = "KeyboardInterrupt" =>
        /\ pc = "Stopped"
        /\ log # <<>>
        /\ log[Len(log)] = Entry("Stopped", 0, <<>>)

\* C13: serial.Serial is called once, at startup; when it fails the cause is
\* reported and the process is in FatalInit without a read, a POST or a
\* pacing delay.
C13_OpenOnceFailureFatal ==
    /\ nOpens <= 1
    /\ nOpens = 0 <=> pc = "open"
    /\ (ser = "none" /\ raised \in OpenExcs \ {"KeyboardInterrupt"}) =>
          /\ pc = "FatalInit"
          /\ log = <<Entry("FatalInit", 0, <<>>)>>
    /\ pc = "FatalInit" =>
          /\ ser = "none"
          /\ nOpens = 1
          /\ line = <<>> /\ raw = Undef /\ idle = 0 /\ nScanned = 0
          /\ ~Posted /\ ~Answered /\ nPosted = 0 /\ inflight = 0

C13_Witness ==
    /\ pc = "FatalInit"
    /\ raised = "SerialException"
    /\ nOpens = 1

ExpectedOutcome(r, e) ==
    IF r # NoResp
    THEN IF r.status \in 400..599
         THEN Entry("Rejected", r.status,
                    IF r.text = <<>> THEN r.reason
                    ELSE SubSeq(r.text, 1, Min(TRUNC, Len(r.text))) \o <<Marker>>)
         ELSE Entry("Delivered", r.status, <<>>)
    ELSE Entry(IF e \in {"ReadTimeout", "ConnectTimeout"} THEN "NetworkTimeout"
               ELSE IF e = "ConnectionError" THEN "NetworkUnreachable"
               ELSE "UnknownFailure", 0, <<>>)

\* C15: the request of a submission is a function of the current line only
\* and its outcome a function of that exchange only (the response, or the
\* transport failure), whatever was submitted before; hence two runs with
\* different histories, the same line and the same server behaviour agree.
C15_SubmissionStateless ==
    /\ Posted =>
          request = [url |-> API_URL,
                     json |-> [uid |-> TrimUpperOf(Decode(line))],
                     timeout |-> POST_TIMEOUT]
    /\ (Posted /\ pc = "sleep") => Outcomes = <<ExpectedOutcome(resp, raised)>>

C15_Witness ==
    /\ pc = "sleep"
    /\ nPosted = 2
    /\ request.json.uid = <<"A">>
    /\ resp.status = 200
    /\ Outcomes = <<Entry("Delivered", 200, <<>>)>>

\* C16: a failed read after the open is logged as SerialFailure, submits
\* nothing and leaves the handle as it is; the handle is never closed or
\* opened again, and the loop goes on to the delay and the next read.
C16_SerialFailureKeepsHandle ==
    /\ ser \in {"none", "open"}
    /\ (ser = "open" /\ raised = "SerialException") =>
          /\ Outcomes = <<Entry("SerialFailure", 0, <<>>)>>
          /\ pc = "sleep"
          /\ ~Posted
          /\ inflight = 0
          /\ nOpens = 1
    /\ pc \in {"readline", "post", "await", "json", "sleep"} => (ser = "open" /\ nOpens = 1)

C16_Witness ==
    /\ pc = "sleep"
    /\ ser = "open"
    /\ raised = "SerialException"
    /\ nScanned = 2
    /\ Outcomes = <<Entry("SerialFailure", 0, <<>>)>>

\* the failure category of an exception by first match in the fixed order
FirstCategory(e) ==
    IF "Timeout" \in Bases(e) THEN "NetworkTimeout"
    ELSE IF "ConnectionError" \in Bases(e) THEN "NetworkUnreachable"
    ELSE IF "SerialException" \in Bases(e) THEN "SerialFailure"
    ELSE "UnknownFailure"

\* C18: an exception raised by the read or the submission is logged as
\* exactly one category, the first that matches in the order NetworkTimeout,
\* NetworkUnreachable, SerialFailure, UnknownFailure, and the loop goes on.
C18_FirstMatchClassification ==
    (ser = "open" /\ ~Answered /\ raised \notin {"none", "KeyboardInterrupt"}) =>
        /\ Outcomes = <<Entry(FirstCategory(raised), 0, <<>>)>>
        /\ pc = "sleep"

C18_Witness ==
    /\ pc = "sleep"
    /\ raised = "TooManyRedirects"
    /\ Outcomes = <<Entry("UnknownFailure", 0, <<>>)>>

\* C19: an iteration logs at most one outcome; one that read a non-empty
\* line has logged exactly one when it reaches the pacing delay; Delivered
\* and Rejected are logged only after a response.
C19_OneOutcomePerIteration ==
    /\ Len(Outcomes) <= 1
    /\ (pc = "sleep" /\ raw # Undef /\ raw # <<>>) => Len(Outcomes) = 1
    /\ \A i \in DOMAIN log :
          log[i].kind \in {"Delivered", "Rejected"} => (Answered /\ Posted)
    /\ (Answered /\ pc # "await") => Len(Outcomes) = 1

C19_Witness ==
    /\ pc = "sleep"
    /\ resp.status = 200
    /\ raised = "JSONDecodeError"
    /\ Len(Outcomes) = 1

\* C17: the loop moves from the read to the dispatch of the line, to the
\* wait for the response and back to the read, and a line that was received
\* is followed by the loop waiting for the next line, unless an interrupt
\* arrived.
C17_LineLeadsBackToIdle ==
    /\ [][/\ pc = "post" => pc' \in {"post", "await"}
          /\ pc = "await" => pc' \in {"await", "json", "sleep", "Stopped"}
          /\ pc = "json" => pc' \in {"json", "sleep"}
          /\ pc = "sleep" => pc' \in {"sleep", "readline", "Stopped"}]_vars
    /\ (pc = "post") ~> (pc = "readline" \/ raised = "KeyboardInterrupt")

C17_Witness ==
    /\ pc = "readline"
    /\ nScanned = 1
    /\ nPosted = 1
    /\ idle = 0

====
